---- MODULE Spec2Model ----
(***************************************************************************)
(* A model of pint/utils.py: the PosVel value type, the MJD string         *)
(* conversions, split_prefixed_name, the Taylor-series evaluators and the  *)
(* interesting_lines generator.                                            *)
(*                                                                         *)
(* Python strings are sequences of one-character strings.  An optional     *)
(* value (None or a value) is a sequence of length 0 or 1.  Each function  *)
(* family has its own specification (SpecPosVel, SpecMjd, ...): its Init   *)
(* draws the arguments, its actions apply the functions; the variables of  *)
(* the other families stay at their idle values.                           *)
(***************************************************************************)
EXTENDS Integers, Sequences, FiniteSets, TLC

VARIABLES
    pvSelf, pvOther, pvOp, pvResult,      \* PosVel operands, operation, outcome
    name, splitResult,                    \* split_prefixed_name argument, outcome
    x, coeffs, deriv_order,               \* taylor_horner(_deriv) arguments
    taylorOp, taylorResult,               \* the evaluator called, its value
    comments,                             \* interesting_lines' comments argument
    pc,                                   \* where the generator stands
    line, ln,                             \* the item last taken from lines; the local ln
    consumed, nYielded,                   \* items taken from lines; lines yielded
    s, prec,                              \* an MJD string; the digits asked for
    parsed,                               \* time_from_mjd_string's imjd, fmjd
    t,                                    \* the Time it returned
    mjdString,                            \* time_to_mjd_string's value
    tArr, arrPrec,                        \* time_to_mjd_string_array's arguments
    arrResult                             \* its outcome

pvVars == <<pvSelf, pvOther, pvOp, pvResult>>
prefixVars == <<name, splitResult>>
taylorVars == <<x, coeffs, deriv_order, taylorOp, taylorResult>>
linesVars == <<comments, pc, line, ln, consumed, nYielded>>
mjdVars == <<s, prec, parsed, t, mjdString>>
arrVars == <<tArr, arrPrec, arrResult>>
vars == <<pvVars, prefixVars, taylorVars, linesVars, mjdVars, arrVars>>

\* the variables of the families other than ...
exceptPv == <<prefixVars, taylorVars, linesVars, mjdVars, arrVars>>
exceptPrefix == <<pvVars, taylorVars, linesVars, mjdVars, arrVars>>
exceptTaylor == <<pvVars, prefixVars, linesVars, mjdVars, arrVars>>
exceptLines == <<pvVars, prefixVars, taylorVars, mjdVars, arrVars>>
exceptMjd == <<pvVars, prefixVars, taylorVars, linesVars, arrVars>>
exceptArr == <<pvVars, prefixVars, taylorVars, linesVars, mjdVars>>

None == <<>>
Some(v) == <<v>>

\* the outcome of a call that has not been made yet
Pending == [exc |-> "pending", val |-> None]

\* the values a family's variables keep while another family is exercised
PosVelIdle ==
    /\ pvSelf = None
    /\ pvOther = None
    /\ pvOp = "none"
    /\ pvResult = Pending

PrefixIdle ==
    /\ name = None
    /\ splitResult = Pending

TaylorIdle ==
    /\ x = None
    /\ coeffs = None
    /\ deriv_order = 0
    /\ taylorOp = "none"
    /\ taylorResult = None

LinesIdle ==
    /\ comments = None
    /\ pc = "none"
    /\ line = None
    /\ ln = None
    /\ consumed = 0
    /\ nYielded = 0

MjdIdle ==
    /\ s = None
    /\ prec = 0
    /\ parsed = Pending
    /\ t = None
    /\ mjdString = None

ArrIdle ==
    /\ tArr = None
    /\ arrPrec = 0
    /\ arrResult = Pending

(***************************************************************************)
(* PosVel                                                                  *)
(***************************************************************************)
MaxCoord == 1

Labels == {"X", "Y", "Z"}
OptLabels == {None} \cup {Some(l) : l \in Labels}

\* the 3-vectors the operands are built from
Vectors == {<<c, c + 1, 0 - c>> : c \in 0..MaxCoord}

\* PosVel.__init__: both vectors must have length 3
PosVel(pos, vel, obj, origin) ==
    IF Len(pos) # 3 \/ Len(vel) # 3
    THEN [exc |-> "ValueError", val |-> None]
    ELSE [exc |-> "", val |-> Some([pos |-> pos, vel |-> vel,
                                    obj |-> obj, origin |-> origin])]

_has_labels(self) == self.obj # None /\ self.origin # None

\* numpy addition / negation of 3-vectors
VecAdd(a, b) == [i \in 1..3 |-> a[i] + b[i]]
VecNeg(a) == [i \in 1..3 |-> 0 - a[i]]

PosVel__neg__(self) ==
    PosVel(VecNeg(self.pos), VecNeg(self.vel), self.origin, self.obj)

PosVel__add__swapped(self, other) ==
    IF _has_labels(self) /\ _has_labels(other)
    THEN IF self.obj = other.origin
         THEN PosVel(VecAdd(self.pos, other.pos), VecAdd(self.vel, other.vel),
                     self.origin, other.obj)
         ELSE IF self.origin = other.obj
         THEN PosVel(VecAdd(self.pos, other.pos), VecAdd(self.vel, other.vel),
                     self.obj, other.origin)
         ELSE [exc |-> "RuntimeError", val |-> None]
    ELSE PosVel(VecAdd(self.pos, other.pos), VecAdd(self.vel, other.vel),
                None, None)

PosVel__add__(self, other) ==
    IF _has_labels(self) /\ _has_labels(other)
    THEN IF self.obj = other.origin
         THEN PosVel(VecAdd(self.pos, other.pos), VecAdd(self.vel, other.vel),
                     other.obj, self.origin)
         ELSE IF self.origin = other.obj
         THEN PosVel(VecAdd(self.pos, other.pos), VecAdd(self.vel, other.vel),
                     self.obj, other.origin)
         ELSE [exc |-> "RuntimeError", val |-> None]
    ELSE PosVel(VecAdd(self.pos, other.pos), VecAdd(self.vel, other.vel),
                None, None)

PosVel__sub__(self, other) ==
    PosVel__add__(self, PosVel__neg__(other).val[1])

PosVels ==
    {[pos |-> p, vel |-> v, obj |-> ob, origin |-> og] :
        p \in Vectors, v \in Vectors, ob \in OptLabels, og \in OptLabels}

InitPosVel ==
    /\ pvSelf \in PosVels
    /\ pvOther \in PosVels
    /\ pvOp = "none"
    /\ pvResult = Pending
    /\ PrefixIdle /\ TaylorIdle /\ LinesIdle /\ MjdIdle /\ ArrIdle

Add ==
    /\ pvOp = "none"
    /\ pvOp' = "add"
    /\ pvResult' = PosVel__add__(pvSelf, pvOther)
    /\ UNCHANGED <<pvSelf, pvOther, exceptPv>>

Sub ==
    /\ pvOp = "none"
    /\ pvOp' = "sub"
    /\ pvResult' = PosVel__sub__(pvSelf, pvOther)
    /\ UNCHANGED <<pvSelf, pvOther, exceptPv>>

Neg ==
    /\ pvOp = "none"
    /\ pvOp' = "neg"
    /\ pvResult' = PosVel__neg__(pvSelf)
    /\ UNCHANGED <<pvSelf, pvOther, exceptPv>>

NextPosVel == Add \/ Sub \/ Neg

SpecPosVel == InitPosVel /\ [][NextPosVel]_vars

\* the component-wise sums of the operands' vectors
SumsOf(r) ==
    /\ \A i \in 1..3 : r.pos[i] = pvSelf.pos[i] + pvOther.pos[i]
    /\ \A i \in 1..3 : r.vel[i] = pvSelf.vel[i] + pvOther.vel[i]

\* C1: after self + other: when both are fully labelled and self.obj equals
\* other.origin the sum exists, runs from self.origin to other.obj and holds
\* the component-wise sums; when both are fully labelled and neither
\* self.obj = other.origin nor self.origin = other.obj the addition raises
\* and yields no pair; when an operand lacks a label the addition succeeds
\* and the sum carries no labels.
C1_AddLabels ==
    pvOp = "add" =>
        /\ (_has_labels(pvSelf) /\ _has_labels(pvOther)
              /\ pvSelf.obj = pvOther.origin)
            => /\ pvResult.exc = ""
               /\ Len(pvResult.val) = 1
               /\ pvResult.val[1].origin = pvSelf.origin
               /\ pvResult.val[1].obj = pvOther.obj
               /\ SumsOf(pvResult.val[1])
        /\ (_has_labels(pvSelf) /\ _has_labels(pvOther)
              /\ pvSelf.obj # pvOther.origin /\ pvSelf.origin # pvOther.obj)
            => /\ pvResult.exc = "RuntimeError"
               /\ pvResult.val = None
        /\ ~(_has_labels(pvSelf) /\ _has_labels(pvOther))
            => /\ pvResult.exc = ""
               /\ Len(pvResult.val) = 1
               /\ pvResult.val[1].origin = None
               /\ pvResult.val[1].obj = None
               /\ SumsOf(pvResult.val[1])

\* X->Y plus Y->Z has been added and gave X->Z
C1_Witness ==
    /\ pvOp = "add"
    /\ pvSelf.origin = Some("X") /\ pvSelf.obj = Some("Y")
    /\ pvOther.origin = Some("Y") /\ pvOther.obj = Some("Z")
    /\ pvSelf.pos = <<1, 2, -1>> /\ pvOther.pos = <<0, 1, 0>>
    /\ pvResult.exc = ""
    /\ pvResult.val[1].origin = Some("X") /\ pvResult.val[1].obj = Some("Z")
    /\ pvResult.val[1].pos = <<1, 3, -1>>

(***************************************************************************)
(* Characters, digits and Python's string operations                       *)
(***************************************************************************)
DigitChars == <<"0", "1", "2", "3", "4", "5", "6", "7", "8", "9">>
Digits == {DigitChars[i] : i \in 1..10}
DigitVal(c) == (CHOOSE i \in 1..10 : DigitChars[i] = c) - 1

Letters ==
    {"a", "b", "c", "d", "e", "f", "g", "h", "i", "j", "k", "l", "m",
     "n", "o", "p", "q", "r", "s", "t", "u", "v", "w", "x", "y", "z",
     "A", "B", "C", "D", "E", "F", "G", "H", "I", "J", "K", "L", "M",
     "N", "O", "P", "Q", "R", "S", "T", "U", "V", "W", "X", "Y", "Z"}

\* every character of str is in class
AllIn(str, class) == \A i \in 1..Len(str) : str[i] \in class

\* ch in str
Contains(str, ch) == \E i \in 1..Len(str) : str[i] = ch

\* the strings over chars of length at most n
StringsUpTo(chars, n) == UNION {[1..k -> chars] : k \in 0..n}

\* int(str) for a string of decimal digits (leading zeros allowed)
RECURSIVE IntOfDigits(_)
IntOfDigits(str) ==
    IF str = <<>> THEN 0
    ELSE 10 * IntOfDigits(SubSeq(str, 1, Len(str) - 1)) + DigitVal(str[Len(str)])

(***************************************************************************)
(* split_prefixed_name                                                     *)
(***************************************************************************)
MaxNameLen == 4

\* prefixPattern: each pattern is ^(group 1)(\d+)$; an entry names group 1:
\*   "L*D+L+"  [a-zA-Z]*\d+[a-zA-Z]+     (T2EFAC2)
\*   "L+"      [a-zA-Z]+                 (F12)
\*   "A+_"     [a-zA-Z0-9]+_             (DMXR1_3)
prefixPattern == <<"L*D+L+", "L+", "A+_">>

\* str, as a whole, matches group 1 of the pattern
Group1Matches(pt, str) ==
    CASE pt = "L*D+L+" ->
           \E a \in 0..Len(str), b \in 1..Len(str) :
               /\ a < b /\ b < Len(str)
               /\ AllIn(SubSeq(str, 1, a), Letters)
               /\ AllIn(SubSeq(str, a + 1, b), Digits)
               /\ AllIn(SubSeq(str, b + 1, Len(str)), Letters)
      [] pt = "L+" -> Len(str) >= 1 /\ AllIn(str, Letters)
      [] pt = "A+_" ->
           /\ Len(str) >= 2
           /\ str[Len(str)] = "_"
           /\ AllIn(SubSeq(str, 1, Len(str) - 1), Letters \cup Digits)

\* where $ holds: at the end of the string, and just before a newline that
\* is the string's last character
DollarPositions(str) ==
    {Len(str)} \cup
    (IF Len(str) >= 1 /\ str[Len(str)] = "\n" THEN {Len(str) - 1} ELSE {})

\* the ways pt matches str: <<i, e>> with group 1 = str[1..i], group 2 =
\* str[i+1..e] a non-empty run of digits, and $ holding at e
MatchesOf(pt, str) ==
    {m \in (1..Len(str)) \X DollarPositions(str) :
        /\ m[1] < m[2]
        /\ Group1Matches(pt, SubSeq(str, 1, m[1]))
        /\ AllIn(SubSeq(str, m[1] + 1, m[2]), Digits)}

\* pt.match(str): None, or the match's groups()
PatternMatch(pt, str) ==
    IF MatchesOf(pt, str) = {} THEN None
    ELSE LET m == CHOOSE mm \in MatchesOf(pt, str) : TRUE
         IN  Some(<<SubSeq(str, 1, m[1]), SubSeq(str, m[1] + 1, m[2])>>)

\* the for loop over prefixPattern from its k-th pattern on; loc holds the
\* locals namefield, prefixPart, indexPart as the earlier iterations left
\* them, and the value is the locals when the loop is left
RECURSIVE PrefixLoop_nobreak(_, _, _)
PrefixLoop_nobreak(k, str, loc) ==
    IF k > Len(prefixPattern) THEN loc
    ELSE LET namefield == PatternMatch(prefixPattern[k], str)
         IN  IF namefield = None
             THEN PrefixLoop_nobreak(k + 1, str, [loc EXCEPT !.namefield = None])
             ELSE PrefixLoop_nobreak(k + 1, str,
                      [namefield |-> namefield,
                       prefixPart |-> namefield[1][1],
                       indexPart |-> namefield[1][2]])

RECURSIVE PrefixLoop(_, _, _)
PrefixLoop(k, str, loc) ==
    IF k > Len(prefixPattern) THEN loc
    ELSE LET namefield == PatternMatch(prefixPattern[k], str)
         IN  IF namefield = None
             THEN PrefixLoop(k + 1, str, [loc EXCEPT !.namefield = None])
             ELSE LET bound == [namefield |-> namefield,
                                prefixPart |-> namefield[1][1],
                                indexPart |-> namefield[1][2]]
                  IN  IF Contains(str, "_")
                      THEN IF Contains(bound.prefixPart, "_")
                           THEN bound
                           ELSE PrefixLoop(k + 1, str, bound)
                      ELSE bound

split_prefixed_name(str) ==
    LET loc == PrefixLoop(1, str, [namefield |-> None, prefixPart |-> <<>>,
                                   indexPart |-> <<>>])
    IN  IF loc.namefield = None
        THEN [exc |-> "PrefixError", arg |-> str, val |-> None]
        ELSE [exc |-> "", arg |-> <<>>,
              val |-> Some(<<loc.prefixPart, loc.indexPart,
                             IntOfDigits(loc.indexPart)>>)]

NameChars == {"F", "0", "7", "_", "\n"}

DMX_0123 == <<"D", "M", "X", "_", "0", "1", "2", "3">>
T2EFAC17 == <<"T", "2", "E", "F", "A", "C", "1", "7">>
F12 == <<"F", "1", "2">>
DMXR1_2 == <<"D", "M", "X", "R", "1", "_", "2">>
PEPOCH == <<"P", "E", "P", "O", "C", "H">>

Names ==
    StringsUpTo(NameChars, MaxNameLen)
        \cup {DMX_0123, T2EFAC17, F12, DMXR1_2, PEPOCH}

InitPrefix ==
    /\ name \in Names
    /\ splitResult = Pending
    /\ PosVelIdle /\ TaylorIdle /\ LinesIdle /\ MjdIdle /\ ArrIdle

Split ==
    /\ splitResult = Pending
    /\ splitResult' = split_prefixed_name(name)
    /\ UNCHANGED <<name, exceptPrefix>>

NextPrefix == Split

SpecPrefix == InitPrefix /\ [][NextPrefix]_vars

Returned == splitResult.exc = ""
prefixPart == splitResult.val[1][1]
indexPart == splitResult.val[1][2]
indexValue == splitResult.val[1][3]

\* the integer a string of decimal digits denotes
RECURSIVE Pow10(_)
Pow10(n) == IF n = 0 THEN 1 ELSE 10 * Pow10(n - 1)

RECURSIVE Denotes(_, _)
Denotes(str, i) ==
    IF i > Len(str) THEN 0
    ELSE DigitVal(str[i]) * Pow10(Len(str) - i) + Denotes(str, i + 1)

\* C3: whenever split_prefixed_name(name) returns (prefix, index, value):
\* prefix + index is name itself, index is a non-empty string of digits
\* (leading zeros kept) and value is the integer index denotes; the three
\* documented names split as documented.
C3_SplitReconstructs ==
    /\ Returned =>
          /\ prefixPart \o indexPart = name
          /\ indexPart # <<>>
          /\ AllIn(indexPart, Digits)
          /\ indexValue = Denotes(indexPart, 1)
    /\ (splitResult # Pending /\ name = DMX_0123) =>
          splitResult.val = Some(<<<<"D", "M", "X", "_">>,
                                   <<"0", "1", "2", "3">>, 123>>)
    /\ (splitResult # Pending /\ name = T2EFAC17) =>
          splitResult.val = Some(<<<<"T", "2", "E", "F", "A", "C">>,
                                   <<"1", "7">>, 17>>)
    /\ (splitResult # Pending /\ name = F12) =>
          splitResult.val = Some(<<<<"F">>, <<"1", "2">>, 12>>)

\* pattern k matches str and the match passes the underscore rule
Consistent(k, str) ==
    /\ PatternMatch(prefixPattern[k], str) # None
    /\ Contains(str, "_") =>
          Contains(PatternMatch(prefixPattern[k], str)[1][1], "_")

\* C4: split_prefixed_name(name) raises PrefixError, carrying name, exactly
\* when no pattern matches name consistently with the underscore rule;
\* otherwise it returns the groups of the first pattern, in list order,
\* whose match is consistent, so a name with an underscore gets a prefix
\* with an underscore; PEPOCH raises.
C4_FirstConsistentOrError ==
    splitResult # Pending =>
        LET ks == {k \in 1..Len(prefixPattern) : Consistent(k, name)}
        IN  /\ splitResult.exc = "PrefixError" <=> ks = {}
            /\ splitResult.exc \in {"", "PrefixError"}
            /\ splitResult.exc = "PrefixError" =>
                  splitResult.arg = name /\ splitResult.val = None
            /\ Returned =>
                  LET k0 == CHOOSE k \in ks : \A j \in ks : k <= j
                      g == PatternMatch(prefixPattern[k0], name)[1]
                  IN  /\ prefixPart = g[1]
                      /\ indexPart = g[2]
                      /\ Contains(name, "_") => Contains(prefixPart, "_")
            /\ name = PEPOCH => splitResult.exc = "PrefixError"

\* DMXR1_2, a name with an underscore that only the third pattern matches,
\* has been split into ("DMXR1_", "2", 2)
C4_Witness ==
    /\ name = DMXR1_2
    /\ Returned
    /\ splitResult.val = Some(<<<<"D", "M", "X", "R", "1", "_">>, <<"2">>, 2>>)

(***************************************************************************)
(* taylor_horner, taylor_horner_deriv                                      *)
(*                                                                         *)
(* The arguments are unitless numbers; a number is an exact fraction       *)
(* [n, d] in lowest terms with d > 0.                                      *)
(***************************************************************************)
MaxCoeffs == 3
MaxCoeff == 2
MaxX == 2
MaxDeriv == 2

Abs(a) == IF a < 0 THEN 0 - a ELSE a

RECURSIVE Gcd(_, _)
Gcd(a, b) == IF b = 0 THEN a ELSE Gcd(b, a % b)

Frac(n, d) ==
    LET g == Gcd(Abs(n), Abs(d))
        sgn == IF d < 0 THEN 0 - 1 ELSE 1
    IN  [n |-> sgn * (n \div g), d |-> sgn * (d \div g)]

Num(i) == [n |-> i, d |-> 1]
Plus(a, b) == Frac(a.n * b.d + b.n * a.d, a.d * b.d)
Times(a, b) == Frac(a.n * b.n, a.d * b.d)
Over(a, b) == Frac(a.n * b.d, a.d * b.n)

\* the loop body: result = result * x / fact + coeff
HornerStep_nofact(result, xx, fact, coeff) ==
    Plus(Times(result, xx), Num(coeff))

HornerStep(result, xx, fact, coeff) ==
    Plus(Over(Times(result, xx), Num(fact)), Num(coeff))

\* for coeff in cs[::-1], from cs[i] down to cs[1], fact counting down
RECURSIVE HornerLoop(_, _, _, _, _)
HornerLoop(xx, cs, i, result, fact) ==
    IF i = 0 THEN result
    ELSE HornerLoop(xx, cs, i - 1, HornerStep(result, xx, fact, cs[i]), fact - 1)

taylor_horner(xx, cs) == HornerLoop(xx, cs, Len(cs), Num(0), Len(cs))

\* coeffs[deriv_order::]
der_coeffs_from_next(cs, order) == SubSeq(cs, order + 2, Len(cs))

der_coeffs(cs, order) == SubSeq(cs, order + 1, Len(cs))

taylor_horner_deriv(xx, cs, order) ==
    LET dc == der_coeffs(cs, order)
    IN  HornerLoop(xx, dc, Len(dc), Num(0), Len(dc))

DocCoeffs == <<10, 3, 4, 12>>

CoeffLists ==
    (StringsUpTo((0 - 1)..MaxCoeff, MaxCoeffs) \ {<<>>}) \cup {DocCoeffs}

Points == {Frac(a, b) : a \in (0 - MaxX)..MaxX, b \in 1..2}

InitTaylor ==
    /\ x \in Points
    /\ coeffs \in CoeffLists
    /\ deriv_order \in 0..MaxDeriv
    /\ taylorOp = "none"
    /\ taylorResult = None
    /\ PosVelIdle /\ PrefixIdle /\ LinesIdle /\ MjdIdle /\ ArrIdle

TaylorHorner ==
    /\ taylorOp = "none"
    /\ taylorOp' = "taylor_horner"
    /\ taylorResult' = Some(taylor_horner(x, coeffs))
    /\ UNCHANGED <<x, coeffs, deriv_order, exceptTaylor>>

TaylorHornerDeriv ==
    /\ taylorOp = "none"
    /\ taylorOp' = "taylor_horner_deriv"
    /\ taylorResult' = Some(taylor_horner_deriv(x, coeffs, deriv_order))
    /\ UNCHANGED <<x, coeffs, deriv_order, exceptTaylor>>

NextTaylor == TaylorHorner \/ TaylorHornerDeriv

SpecTaylor == InitTaylor /\ [][NextTaylor]_vars

RECURSIVE Factorial(_)
Factorial(n) == IF n = 0 THEN 1 ELSE n * Factorial(n - 1)

RECURSIVE Power(_, _)
Power(a, n) == IF n = 0 THEN Num(1) ELSE Times(a, Power(a, n - 1))

\* sum over i = from .. Len(cs)-1 of cs[i] * xx^(i-from) / (i-from)!,
\* cs[i] being the coefficient of degree i (cs[0] the constant term)
RECURSIVE SeriesSum(_, _, _, _)
SeriesSum(xx, cs, from, i) ==
    IF i > Len(cs) - 1 THEN Num(0)
    ELSE Plus(Over(Times(Num(cs[i + 1]), Power(xx, i - from)),
                   Num(Factorial(i - from))),
              SeriesSum(xx, cs, from, i + 1))

\* C5: taylor_horner(x, coeffs) is the sum of coeffs[i] * x^i / i! over
\* i = 0 .. len(coeffs)-1, for every point and every non-empty coefficient
\* list; taylor_horner(2.0, [10, 3, 4, 12]) is 40.
C5_HornerIsSeries ==
    taylorOp = "taylor_horner" =>
        /\ taylorResult = Some(SeriesSum(x, coeffs, 0, 0))
        /\ (x = Num(2) /\ coeffs = DocCoeffs) => taylorResult = Some(Num(40))

\* taylor_horner(2.0, [10, 3, 4, 12]) has been evaluated, to 40
C5_Witness ==
    /\ taylorOp = "taylor_horner"
    /\ x = Num(2) /\ coeffs = DocCoeffs
    /\ taylorResult = Some(Num(40))

DocDerivCall ==
    /\ taylorOp = "taylor_horner_deriv"
    /\ x = Num(2) /\ coeffs = DocCoeffs /\ deriv_order = 1

MaxLineLen == 2
MaxMarkerLen == 2
MaxTuple == 2
MaxLines == 3

Whitespace == {" ", "\t", "\n", "\r"}

\* str.lstrip(), str.rstrip(), str.strip()
RECURSIVE LStrip(_)
LStrip(str) ==
    IF str # <<>> /\ str[1] \in Whitespace THEN LStrip(Tail(str)) ELSE str

RECURSIVE RStrip(_)
RStrip(str) ==
    IF str # <<>> /\ str[Len(str)] \in Whitespace
    THEN RStrip(SubSeq(str, 1, Len(str) - 1))
    ELSE str

Strip(str) == RStrip(LStrip(str))

\* str.startswith(prefix) for a string prefix
StartsWith(str, prefix) ==
    Len(prefix) <= Len(str) /\ SubSeq(str, 1, Len(prefix)) = prefix

\* the comments argument: None, a string, or a tuple of strings; kind is
\* its type and strs the strings it holds (one, for a string)
CommentsNone == [kind |-> "None", strs |-> <<>>]
CommentsStr(c) == [kind |-> "str", strs |-> <<c>>]
CommentsTuple(cs) == [kind |-> "tuple", strs |-> cs]

\* cc: the tuple of markers that is validated
cc(cm) ==
    IF cm.kind = "None" THEN <<>>
    ELSE IF cm.kind = "tuple" THEN cm.strs
    ELSE <<cm.strs[1]>>

\* not cs or not c.startswith(cs), with cs = c.strip()
Rejects_onlyLeading(c) == ~StartsWith(c, Strip(c))

Rejects(c) == Strip(c) = <<>> \/ ~StartsWith(c, Strip(c))

\* ln.startswith(comments), comments a string or a tuple of strings
StartsWithComments(str, cm) ==
    IF cm.kind = "tuple"
    THEN \E i \in 1..Len(cm.strs) : StartsWith(str, cm.strs[i])
    ELSE StartsWith(str, cm.strs[1])

\* one pass through the loop body with item taken from lines: the local ln
\* and where the pass ends (at the yield, or back at the head of the loop)
LoopBody_unstripped(cm, item) ==
    LET stripped == Strip(item)
    IN  IF stripped = <<>> THEN [ln |-> stripped, pc |-> "loop"]
        ELSE IF cm.kind # "None" /\ StartsWithComments(item, cm)
        THEN [ln |-> stripped, pc |-> "loop"]
        ELSE [ln |-> stripped, pc |-> "yield"]

LoopBody(cm, item) ==
    LET stripped == Strip(item)
    IN  IF stripped = <<>> THEN [ln |-> stripped, pc |-> "loop"]
        ELSE IF cm.kind # "None" /\ StartsWithComments(stripped, cm)
        THEN [ln |-> stripped, pc |-> "loop"]
        ELSE [ln |-> stripped, pc |-> "yield"]

LineChars == {" ", "#", "d"}
MarkerChars == {" ", "#"}

BlankLine == <<" ", " ">>
CommentLine == <<"#", " ", "c", "o", "m", "m", "e", "n", "t">>
DataLine == <<"d", "a", "t", "a">>
FileLine == <<" ", "d", "a", "t", "a", " ", "\n">>

Lines ==
    StringsUpTo(LineChars, MaxLineLen)
        \cup {BlankLine, CommentLine, DataLine, FileLine}

Markers == StringsUpTo(MarkerChars, MaxMarkerLen)

CommentsArgs ==
    {CommentsNone}
        \cup {CommentsStr(c) : c \in Markers}
        \cup {CommentsTuple(cs) : cs \in StringsUpTo(Markers, MaxTuple)}

InitLines ==
    /\ comments \in CommentsArgs
    /\ pc = "created"
    /\ line = None
    /\ ln = None
    /\ consumed = 0
    /\ nYielded = 0
    /\ PosVelIdle /\ PrefixIdle /\ TaylorIdle /\ MjdIdle /\ ArrIdle

\* the first next(): the markers are validated, in order
StartRaises ==
    /\ pc = "created"
    /\ \E i \in 1..Len(cc(comments)) : Rejects(cc(comments)[i])
    /\ pc' = "ValueError"
    /\ UNCHANGED <<comments, line, ln, consumed, nYielded, exceptLines>>

StartLoop ==
    /\ pc = "created"
    /\ \A i \in 1..Len(cc(comments)) : ~Rejects(cc(comments)[i])
    /\ pc' = "loop"
    /\ UNCHANGED <<comments, line, ln, consumed, nYielded, exceptLines>>

\* the loop takes the next item of lines and runs its body on it
TakeLine ==
    /\ pc \in {"loop", "yield"}
    /\ consumed < MaxLines
    /\ \E item \in Lines :
          /\ line' = Some(item)
          /\ ln' = Some(LoopBody(comments, item).ln)
          /\ pc' = LoopBody(comments, item).pc
          /\ nYielded' =
                IF LoopBody(comments, item).pc = "yield"
                THEN nYielded + 1 ELSE nYielded
    /\ consumed' = consumed + 1
    /\ UNCHANGED <<comments, exceptLines>>

\* lines is exhausted: the generator returns
Exhausted ==
    /\ pc \in {"loop", "yield"}
    /\ pc' = "StopIteration"
    /\ UNCHANGED <<comments, line, ln, consumed, nYielded, exceptLines>>

NextLines == StartRaises \/ StartLoop \/ TakeLine \/ Exhausted

SpecLines == InitLines /\ [][NextLines]_vars

\* str is item without its leading and trailing whitespace
IsStrippedFormOf(str, item) ==
    \E a \in 1..(Len(item) + 1), b \in 0..Len(item) :
        /\ str = SubSeq(item, a, b)
        /\ AllIn(SubSeq(item, 1, a - 1), Whitespace)
        /\ AllIn(SubSeq(item, b + 1, Len(item)), Whitespace)
        /\ str # <<>> =>
              str[1] \notin Whitespace /\ str[Len(str)] \notin Whitespace

\* str is non-empty and starts with none of the markers
Qualifies(str, cm) ==
    /\ str # <<>>
    /\ \A i \in 1..Len(cc(cm)) :
          ~(Len(cc(cm)[i]) <= Len(str)
              /\ \A j \in 1..Len(cc(cm)[i]) : str[j] = cc(cm)[i][j])

\* C7: for every valid comments argument, each item taken from lines is
\* yielded at once, as its whitespace-stripped form, when that form is
\* non-empty and starts with none of the markers, and is otherwise passed
\* over with nothing yielded; so the yielded lines are exactly the
\* qualifying ones, stripped, in input order.  With comments = '#' the
\* items '  ' and '# comment' are passed over and 'data' is yielded.
C7_YieldsExactlyInteresting ==
    (pc \in {"loop", "yield"} /\ consumed > 0) =>
        /\ IsStrippedFormOf(ln[1], line[1])
        /\ pc = "yield" <=> Qualifies(ln[1], comments)
        /\ nYielded <= consumed
        /\ comments = CommentsStr(<<"#">>) =>
              /\ line[1] \in {BlankLine, CommentLine} => pc = "loop"
              /\ line[1] = DataLine => pc = "yield" /\ ln[1] = DataLine

\* under a tuple of two markers an item with surrounding whitespace has
\* been taken and yielded stripped
C7_Witness ==
    /\ pc = "yield"
    /\ comments.kind = "tuple" /\ Len(comments.strs) = 2
    /\ line = Some(FileLine)
    /\ ln = Some(DataLine)
    /\ nYielded = 1 /\ consumed = 2

\* a marker that is empty, whitespace-only or begins with whitespace
BadMarker(c) == c = <<>> \/ c[1] \in Whitespace

\* C8: once the generator has been started, it has failed with ValueError
\* exactly when comments is, or as a tuple contains, a marker that is
\* empty, whitespace-only or begins with whitespace; the failure comes
\* before any item of lines is taken and before any line is yielded;
\* markers without leading whitespace, trailing whitespace or not, are
\* accepted.
C8_BadMarkerFailsFirst ==
    /\ pc # "created" =>
          (pc = "ValueError" <=>
              \E i \in 1..Len(cc(comments)) : BadMarker(cc(comments)[i]))
    /\ pc = "ValueError" =>
          consumed = 0 /\ nYielded = 0 /\ line = None /\ ln = None

\* a tuple whose second marker is ' #' has made the generator fail
C8_Witness ==
    /\ pc = "ValueError"
    /\ comments = CommentsTuple(<<<<"#">>, <<" ", "#">>>>)
    /\ consumed = 0

(***************************************************************************)
(* Numbers of days                                                         *)
(*                                                                         *)
(* A floating-point number of days is kept exactly, as whole days w and a  *)
(* count u of milliseconds, 0 <= u < DayUnits: its value is                *)
(* w + u / DayUnits.  The decimal fractions drawn below have at most five  *)
(* digits, and so are whole numbers of milliseconds.                       *)
(***************************************************************************)
DayUnits == 86400000

Fx(w, u) == [w |-> w + (u \div DayUnits), u |-> u % DayUnits]
FxInt(i) == [w |-> i, u |-> 0]
FxAdd(a, b) == Fx(a.w + b.w, a.u + b.u)
FxSub(a, b) == Fx(a.w - b.w, a.u - b.u)
FxNeg(a) == Fx(0 - a.w, 0 - a.u)
FxLess(a, b) == a.w < b.w \/ (a.w = b.w /\ a.u < b.u)
FxIsNeg(a) == a.w < 0
FxAbs(a) == IF FxIsNeg(a) THEN FxNeg(a) ELSE a

\* int(a), ndarray.astype(int): truncation toward zero
FxTrunc(a) == IF a.w < 0 /\ a.u # 0 THEN a.w + 1 ELSE a.w

\* numpy.round: to the nearest integer, a half to the even one
FxRound(a) ==
    IF 2 * a.u < DayUnits THEN a.w
    ELSE IF 2 * a.u > DayUnits THEN a.w + 1
    ELSE IF a.w % 2 = 0 THEN a.w ELSE a.w + 1

\* erfa.DJM0 = 2400000.5
DJM0 == [w |-> 2400000, u |-> DayUnits \div 2]

\* astropy.time.utils.day_frac(val1, val2): the sum as a whole number of
\* days, rounded to nearest, and the rest, in [-0.5, 0.5]
day_frac(val1, val2) ==
    LET sum == FxAdd(val1, val2)
        day == FxRound(sum)
    IN  [day |-> FxInt(day), frac |-> FxSub(sum, FxInt(day))]

(***************************************************************************)
(* Python's str, int and float on the strings of time_from_mjd_string      *)
(***************************************************************************)
\* str.lower() and str.translate(maketrans("d", "e")), on the letters that
\* occur in a number
LowerChar(c) == IF c = "E" THEN "e" ELSE IF c = "D" THEN "d" ELSE c
Lower(str) == [i \in 1..Len(str) |-> LowerChar(str[i])]
TranslateDE(str) == [i \in 1..Len(str) |-> IF str[i] = "d" THEN "e" ELSE str[i]]

\* str.split(sep) for a one-character sep
RECURSIVE Split1(_, _, _)
Split1(str, sep, part) ==
    IF str = <<>> THEN <<part>>
    ELSE IF str[1] = sep THEN <<part>> \o Split1(Tail(str), sep, <<>>)
    ELSE Split1(Tail(str), sep, Append(part, str[1]))

StrSplit(str, sep) == Split1(str, sep, <<>>)

\* str(i) for an integer
RECURSIVE NatToStr(_)
NatToStr(i) ==
    IF i < 10 THEN <<DigitChars[i + 1]>>
    ELSE Append(NatToStr(i \div 10), DigitChars[(i % 10) + 1])

IntToStr(i) == IF i < 0 THEN <<"-">> \o NatToStr(0 - i) ELSE NatToStr(i)

\* int(str) accepts an optional sign and at least one digit
IsIntLiteral(str) ==
    LET body == IF str # <<>> /\ str[1] \in {"-", "+"} THEN Tail(str) ELSE str
    IN  body # <<>> /\ AllIn(body, Digits)

PyInt(str) ==
    IF str[1] = "-" THEN 0 - IntOfDigits(Tail(str))
    ELSE IF str[1] = "+" THEN IntOfDigits(Tail(str))
    ELSE IntOfDigits(str)

\* float("0." + digits)
FloatOfFraction(digits) ==
    Fx(0, IntOfDigits(digits) * (DayUnits \div Pow10(Len(digits))))

\* float of the digits int_s.frac_s scaled by 10^-n, n >= 0
FloatScaledDown(int_s, frac_s, n) ==
    LET mant == IntOfDigits(int_s \o frac_s)
        q == Pow10(Len(frac_s) + n)
    IN  Fx(mant \div q, (mant % q) * (DayUnits \div q))

(***************************************************************************)
(* time_from_mjd_string, time_to_mjd_string                                *)
(***************************************************************************)
MaxFrac == 3
MaxExp == 3
MaxPrec == 3

Min(a, b) == IF a < b THEN a ELSE b
Max(a, b) == IF a < b THEN b ELSE a

ValueError == [exc |-> "ValueError", val |-> None]

\* float(ss) for ss = num "e" -n, n > 0
FloatOfSci(num, n) ==
    LET np == StrSplit(num, ".")
    IN  FloatScaledDown(np[1], IF Len(np) = 2 THEN np[2] ELSE <<>>, n)

IsFloatMantissa(num) ==
    LET np == StrSplit(num, ".")
    IN  /\ Len(np) <= 2
        /\ \A i \in 1..Len(np) : AllIn(np[i], Digits)
        /\ \E i \in 1..Len(np) : np[i] # <<>>

\* the body of time_from_mjd_string up to the Time constructor: imjd and
\* fmjd, and whether the warning was logged
MjdParts(str) ==
    LET ss == Lower(str)
    IN  IF Contains(ss, "e") \/ Contains(ss, "d")
        THEN LET sse == TranslateDE(ss)
                 parts == StrSplit(sse, "e")
             IN  IF Len(parts) # 2 \/ ~IsIntLiteral(parts[2])
                 THEN ValueError
                 ELSE LET num == parts[1]
                          expon == PyInt(parts[2])
                      IN  IF expon < 0
                          THEN IF ~IsFloatMantissa(num) THEN ValueError
                               ELSE [exc |-> "",
                                     val |-> Some([imjd |-> 0,
                                                   fmjd |-> FloatOfSci(num, 0 - expon),
                                                   warned |-> TRUE])]
                          ELSE LET np == StrSplit(num, ".")
                               IN  IF Len(np) # 2 THEN ValueError
                                   ELSE LET imjd_s == np[1]
                                            fmjd_s == np[2]
                                            head == SubSeq(fmjd_s, 1, Min(expon, Len(fmjd_s)))
                                            rest == SubSeq(fmjd_s, expon + 1, Len(fmjd_s))
                                        IN  IF ~IsIntLiteral(imjd_s \o head)
                                                 \/ ~AllIn(rest, Digits)
                                            THEN ValueError
                                            ELSE [exc |-> "",
                                                  val |-> Some([imjd |-> PyInt(imjd_s \o head),
                                                                fmjd |-> FloatOfFraction(rest),
                                                                warned |-> FALSE])]
        ELSE LET split == StrSplit(ss, ".")
                 mjd_s == IF Len(split) = 1 THEN Append(split, <<"0">>) ELSE split
             IN  IF Len(mjd_s) # 2 \/ ~IsIntLiteral(mjd_s[1])
                      \/ ~AllIn(mjd_s[2], Digits)
                 THEN ValueError
                 ELSE [exc |-> "",
                       val |-> Some([imjd |-> PyInt(mjd_s[1]),
                                     fmjd |-> FloatOfFraction(mjd_s[2]),
                                     warned |-> FALSE])]

\* astropy.time.Time(imjd, fmjd, format='pulsar_mjd'): the two-part Julian
\* date of MJD imjd + fmjd
Time(imjd, fmjd) ==
    LET df == day_frac(FxInt(imjd), fmjd)
    IN  [format |-> "pulsar_mjd", jd1 |-> FxAdd(df.day, DJM0), jd2 |-> df.frac]

time_from_mjd_string(str) ==
    LET p == MjdParts(str)
    IN  IF p.exc # "" THEN p
        ELSE [exc |-> "", val |-> Some(Time(p.val[1].imjd, p.val[1].fmjd))]

\* erfa.d2dtf('UTC', 9, jd1, jd2)'s hmsf on a day without a leap second:
\* hours, minutes, seconds and the fraction of a second in units of 1e-9 s
d2dtf_hmsf(jd1, jd2) ==
    LET ms == FxSub(FxAdd(jd1, jd2), DJM0).u
    IN  <<ms \div 3600000, (ms % 3600000) \div 60000,
          (ms % 60000) \div 1000, (ms % 1000) * 1000000>>

\* hmsf[0]/24.0 + hmsf[1]/1440.0 + hmsf[2]/86400.0 + hmsf[3]/86400.0e9
FractionOfHmsf(hmsf) ==
    Fx(0, hmsf[1] * (DayUnits \div 24) + hmsf[2] * (DayUnits \div 1440)
          + hmsf[3] * (DayUnits \div 86400) + hmsf[4] \div 1000000)

\* the first n decimals of r / DayUnits, and what is left of r
RECURSIVE Decimals(_, _)
Decimals(r, n) ==
    IF n = 0 THEN [digits |-> <<>>, rem |-> r]
    ELSE LET more == Decimals((10 * r) % DayUnits, n - 1)
         IN  [digits |-> <<(10 * r) \div DayUnits>> \o more.digits,
              rem |-> more.rem]

\* a string of decimals plus one in its last place
RECURSIVE Incremented(_)
Incremented(digits) ==
    IF digits = <<>> THEN [digits |-> <<>>, carry |-> 1]
    ELSE LET n == Len(digits)
         IN  IF digits[n] < 9
             THEN [digits |-> [digits EXCEPT ![n] = digits[n] + 1], carry |-> 0]
             ELSE LET front == Incremented(SubSeq(digits, 1, n - 1))
                  IN  [digits |-> Append(front.digits, 0), carry |-> front.carry]

\* ("%." + "%sf" % p) % a: a rounded to p decimals.  Python rounds the
\* binary value it holds; for a decimal that lies exactly between two
\* neighbours that value may fall on either side, so tieUp says which way.
FormatF(a, p, tieUp) ==
    LET mag == FxAbs(a)
        dec == Decimals(mag.u, p)
        up == 2 * dec.rem > DayUnits \/ (2 * dec.rem = DayUnits /\ tieUp)
        rounded == IF up THEN Incremented(dec.digits)
                         ELSE [digits |-> dec.digits, carry |-> 0]
    IN  (IF FxIsNeg(a) THEN <<"-">> ELSE <<>>)
            \o NatToStr(mag.w + rounded.carry)
            \o (IF p > 0
                 THEN <<".">> \o [i \in 1..p |-> DigitChars[rounded.digits[i] + 1]]
                 ELSE <<>>)

\* the integer day and the day fraction time_to_mjd_string prints
MjdDayAndFraction(tt) ==
    LET df == day_frac(FxSub(tt.jd1, DJM0), tt.jd2)
        imjd == FxTrunc(df.day)
    IN  IF tt.format = "pulsar_mjd"
        THEN [exc |-> "",
              imjd |-> IF FxIsNeg(df.frac) THEN imjd - 1 ELSE imjd,
              fmjd |-> FractionOfHmsf(d2dtf_hmsf(tt.jd1, tt.jd2))]
        ELSE IF ~FxLess(FxAbs(df.frac), FxInt(2))
        THEN [exc |-> "AssertionError", imjd |-> imjd, fmjd |-> df.frac]
        ELSE LET hi == ~FxLess(df.frac, FxInt(1))
                 i1 == IF hi THEN imjd + 1 ELSE imjd
                 f1 == IF hi THEN FxSub(df.frac, FxInt(1)) ELSE df.frac
             IN  [exc |-> "",
                  imjd |-> IF FxIsNeg(f1) THEN i1 - 1 ELSE i1,
                  fmjd |-> IF FxIsNeg(f1) THEN FxAdd(f1, FxInt(1)) ELSE f1]

time_to_mjd_string(tt, p, tieUp) ==
    LET df == MjdDayAndFraction(tt)
    IN  IF df.exc # "" THEN [exc |-> df.exc, val |-> None]
        ELSE [exc |-> "",
              val |-> Some(IntToStr(df.imjd) \o Tail(FormatF(df.fmjd, p, tieUp)))]

IntParts == {<<"0">>, <<"7">>, <<"5", "5", "0", "0", "0">>}
FracChars == {"0", "5", "9"}
ExpMarkers == {"e", "D"}

Mantissas ==
    IntParts \cup
    {i \o <<".">> \o f : i \in IntParts, f \in StringsUpTo(FracChars, MaxFrac)}

MjdStrings ==
    Mantissas \cup
    {m \o <<e>> \o IntToStr(n) :
        m \in Mantissas, e \in ExpMarkers, n \in (0 - 1)..MaxExp}

InitMjd ==
    /\ s \in MjdStrings
    /\ prec \in 0..MaxPrec
    /\ parsed = Pending
    /\ t = None
    /\ mjdString = None
    /\ PosVelIdle /\ PrefixIdle /\ TaylorIdle /\ LinesIdle /\ ArrIdle

FromMjdString ==
    /\ parsed = Pending
    /\ parsed' = MjdParts(s)
    /\ t' = time_from_mjd_string(s).val
    /\ UNCHANGED <<s, prec, mjdString, exceptMjd>>

\* the caller sets t.format = 'mjd'
ViewAsMjd ==
    /\ t # None /\ mjdString = None
    /\ t[1].format = "pulsar_mjd"
    /\ t' = Some([t[1] EXCEPT !.format = "mjd"])
    /\ UNCHANGED <<s, prec, parsed, mjdString, exceptMjd>>

ToMjdString ==
    /\ t # None /\ mjdString = None
    /\ \E tieUp \in BOOLEAN :
          mjdString' = Some(time_to_mjd_string(t[1], prec, tieUp))
    /\ UNCHANGED <<s, prec, parsed, t, exceptMjd>>

NextMjd == FromMjdString \/ ViewAsMjd \/ ToMjdString

SpecMjd == InitMjd /\ [][NextMjd]_vars

\* str is 'I.F': digits, a point, digits, at least one on each side
IsPlainDecimal(str) ==
    LET np == StrSplit(str, ".")
    IN  /\ Len(np) = 2
        /\ np[1] # <<>> /\ AllIn(np[1], Digits)
        /\ np[2] # <<>> /\ AllIn(np[2], Digits)

\* time_to_mjd_string(time_from_mjd_string(s), prec) has been evaluated
RoundTripDone ==
    /\ mjdString # None
    /\ t[1].format = "pulsar_mjd"

\* C2: for a plain decimal s = 'I.F' and prec >= 0,
\* time_to_mjd_string(time_from_mjd_string(s), prec) is a decimal string
\* with prec digits after the point, its value is within 10^-prec of the
\* value of s, and it is s itself when prec is the number of digits of F.
C2_RoundTripWithinPrec ==
    (RoundTripDone /\ IsPlainDecimal(s)) =>
        /\ mjdString[1].exc = ""
        /\ LET out == StrSplit(mjdString[1].val[1], ".")
                in == StrSplit(s, ".")
                outF == IF Len(out) = 2 THEN out[2] ELSE <<>>
                k == Max(prec, Len(in[2]))
            IN  /\ Len(out) <= 2
                /\ prec > 0 => Len(out) = 2
                /\ out[1] # <<>> /\ AllIn(out[1], Digits)
                /\ Len(outF) = prec /\ AllIn(outF, Digits)
                /\ Abs((IntOfDigits(out[1]) - IntOfDigits(in[1])) * Pow10(k)
                        + IntOfDigits(outF) * Pow10(k - prec)
                        - IntOfDigits(in[2]) * Pow10(k - Len(in[2])))
                      <= Pow10(k - prec)
                /\ prec = Len(in[2]) => mjdString[1].val[1] = s

\* str is 'I.F', an exponent marker and a non-negative integer exponent
IsExponentForm(str) ==
    LET parts == StrSplit(TranslateDE(Lower(str)), "e")
    IN  /\ Len(parts) = 2
        /\ IsPlainDecimal(parts[1])
        /\ parts[2] # <<>> /\ AllIn(parts[2], Digits)

\* C9: for s = 'I.F', an exponent marker (e, E, d, D) and an exponent
\* N >= 0, time_from_mjd_string gives the integer day the integer part of
\* I.F * 10^N and the fractional day its fractional part, in [0, 1): with
\* L the number of digits of F, I * 10^N + (F * 10^N div 10^L) and
\* (F * 10^N mod 10^L) / 10^L.
C9_ExponentShiftsPoint ==
    (parsed # Pending /\ IsExponentForm(s)) =>
        LET parts == StrSplit(TranslateDE(Lower(s)), "e")
            in == StrSplit(parts[1], ".")
            shifted == IntOfDigits(in[2]) * Pow10(IntOfDigits(parts[2]))
            unit == Pow10(Len(in[2]))
        IN  /\ parsed.exc = ""
            /\ parsed.val[1].imjd =
                  IntOfDigits(in[1]) * Pow10(IntOfDigits(parts[2]))
                      + (shifted \div unit)
            /\ parsed.val[1].fmjd =
                  Fx(0, (shifted % unit) * (DayUnits \div unit))

(***************************************************************************)
(* time_to_mjd_string_array                                                *)
(***************************************************************************)
MaxArr == 2
MaxHalfDays == 2
MaxQuarterDays == 8

\* one element before the loop: imjd = (jd1 - DJM0).astype(int) and
\* fmjd = jd2 + (jd1 - DJM0 - imjd)
ArrayElement(jd1, jd2) ==
    LET mjd1 == FxSub(jd1, DJM0)
        imjd == FxTrunc(mjd1)
    IN  [i |-> imjd, f |-> FxAdd(jd2, FxSub(mjd1, FxInt(imjd)))]

\* the loop's two ifs on i, f
Renormalized(e) ==
    LET hi == ~FxLess(e.f, FxInt(1))
        i1 == IF hi THEN e.i + 1 ELSE e.i
        f1 == IF hi THEN FxSub(e.f, FxInt(1)) ELSE e.f
    IN  IF FxIsNeg(f1)
        THEN [i |-> i1 - 1, f |-> FxAdd(f1, FxInt(1))]
        ELSE [i |-> i1, f |-> f1]

\* norm holds each element's i, f as the loop leaves them; ties[k] is the
\* way an exact decimal tie of element k is rounded
time_to_mjd_string_array(tt, p, ties) ==
    LET n == Len(tt.jd1)
        pre == [k \in 1..n |-> ArrayElement(tt.jd1[k], tt.jd2[k])]
        norm == [k \in 1..n |-> Renormalized(pre[k])]
    IN  IF n = 0
        THEN [exc |-> "ValueError", val |-> None, norm |-> <<>>]
        ELSE IF \E k \in 1..n : ~FxLess(FxAbs(pre[k].f), FxInt(2))
        THEN [exc |-> "AssertionError", val |-> None, norm |-> <<>>]
        ELSE [exc |-> "",
              val |-> Some([k \in 1..n |->
                         IntToStr(norm[k].i)
                             \o Tail(FormatF(norm[k].f, p, ties[k]))]),
              norm |-> norm]

BaseDays == {0, 55000}

Jd1s ==
    {FxAdd(DJM0, Fx(b, h * (DayUnits \div 2))) :
        b \in BaseDays, h \in (0 - MaxHalfDays)..MaxHalfDays}

Jd2s == {Fx(0, q * (DayUnits \div 4)) : q \in (0 - MaxQuarterDays)..MaxQuarterDays}

InitArr ==
    /\ \E n \in 0..MaxArr :
          tArr \in [jd1 : [1..n -> Jd1s], jd2 : [1..n -> Jd2s]]
    /\ arrPrec \in 0..MaxPrec
    /\ arrResult = Pending
    /\ PosVelIdle /\ PrefixIdle /\ TaylorIdle /\ LinesIdle /\ MjdIdle

ToMjdStringArray ==
    /\ arrResult = Pending
    /\ \E ties \in [1..Len(tArr.jd1) -> BOOLEAN] :
          arrResult' = time_to_mjd_string_array(tArr, arrPrec, ties)
    /\ UNCHANGED <<tArr, arrPrec, exceptArr>>

NextArr == ToMjdStringArray

SpecArr == InitArr /\ [][NextArr]_vars

\* C10: when the assertion |f| < 2.0 passed, every element leaves the
\* loop with its fractional part in [0, 1) and with integer day plus
\* fractional part equal to (jd1 - DJM0) + jd2, and the text before the
\* point of its string is that integer day.
C10_ArrayRenormalizes ==
    (arrResult # Pending /\ arrResult.exc = "") =>
        \A k \in 1..Len(tArr.jd1) :
            LET sum == FxAdd(FxSub(tArr.jd1[k], DJM0), tArr.jd2[k])
                e == arrResult.norm[k]
            IN  /\ e.f.w = 0
                /\ FxAdd(FxInt(e.i), e.f) = sum
                /\ arrPrec > 0 =>
                      StrSplit(arrResult.val[1][k], ".")[1] = IntToStr(sum.w)
====
